---------------------------- MODULE Spec2Model ----------------------------
(***************************************************************************)
(* Model of the `resolution` crate: the period index contract, the         *)
(* contiguous TimeRange algebra of src/src/range.rs and the constructors   *)
(* that build it.                                                          *)
(*                                                                         *)
(* A period is a newtype around an i64 index (Day(i64), Month(i64), ...).  *)
(* It is modelled as the record [index |-> i].  A TimeRange is the record  *)
(* [start |-> p, len |-> n] with n a NonZeroU32.  An Option is             *)
(* [tag |-> "Some", val |-> v] or [tag |-> "None"]; a call that panics     *)
(* yields [tag |-> "Panic"].                                               *)
(*                                                                         *)
(* Every operation of the API is an action: from the idle state it draws   *)
(* its arguments from bounded sets, applies the operator translated from   *)
(* the code and records the call in (op, args, ret); Return hands the      *)
(* value to the caller and the machine is idle again.  The operations are  *)
(* pure, so a call never depends on the calls made before it.              *)
(*                                                                         *)
(* The Cache of src/src/range.rs is the pair of variables (data, requests);*)
(* CacheSpec is the machine of its two calls, add and get.                 *)
(***************************************************************************)
EXTENDS Integers, Sequences, FiniteSets

VARIABLES op, args, ret, data, requests

vars == <<op, args, ret, data, requests>>

\* the fields of the Cache
cache == <<data, requests>>

(***************************************************************************)
(* Bounds.  U32_MAX stands for u32::MAX, scaled down so that the places    *)
(* where the code converts to u32 (try_from, saturating_add, 1 + x) meet   *)
(* their limit inside the explored inputs.                                 *)
(***************************************************************************)
U32_MAX == 3

NegIdx == 2

PosIdx == 4

MaxKey == 3

MaxPairs == 1

NegYears == 1

PosYears == 1

\* seconds in a minute
NUM_SECS == 60

\* the monotonic indices the inputs are drawn from
Idx == (0 - NegIdx)..PosIdx

\* the set of the coalescing example of the specification
CoalesceExample == {1, 2, 3, 7, 8, 10}

(***************************************************************************)
(* Option / panic values                                                   *)
(***************************************************************************)
None == [tag |-> "None"]

Some(v) == [tag |-> "Some", val |-> v]

Panic == [tag |-> "Panic"]

is_some(o) == o.tag = "Some"

(***************************************************************************)
(* Period index contract (TimeResolution), as implemented by every kind    *)
(***************************************************************************)
from_monotonic(idx) == [index |-> idx]

to_monotonic(p) == p.index

succ_n(p, n) == [index |-> p.index + n]

pred_n(p, n) == [index |-> p.index - n]

succ(p) == succ_n(p, 1)

pred(p) == pred_n(p, 1)

between(p, other) == other.index - p.index

\* derived Ord on the newtype: the order of the wrapped index
le(p, q) == p.index <= q.index

lt(p, q) == p.index < q.index

max(p, q) == IF le(p, q) THEN q ELSE p

min(p, q) == IF le(p, q) THEN p ELSE q

Periods == {from_monotonic(i) : i \in Idx}

(***************************************************************************)
(* TimeRange                                                               *)
(***************************************************************************)
new(s, n) == [start |-> s, len |-> n]

\* faulty variant of maybe_new: the length is not checked against 0
maybe_new_unchecked(s, n) == Some([start |-> s, len |-> n])

\* NonZeroU32::new(len)? is None for 0
maybe_new(s, n) == IF n = 0 THEN None ELSE Some([start |-> s, len |-> n])

start(r) == r.start

len(r) == r.len

end(r) == succ_n(r.start, r.len)

\* TimeRangeIter::next, run to exhaustion: the periods yielded, in order
RECURSIVE iter_next(_, _)
iter_next(current, e) ==
    IF le(current, e)
    THEN <<current>> \o iter_next(succ(current), e)
    ELSE <<>>

iter(r) == iter_next(start(r), end(r))

set(r) == LET s == iter(r) IN {s[i] : i \in 1..Len(s)}

to_indexes(r) == LET s == iter(r) IN {to_monotonic(s[i]) : i \in 1..Len(s)}

\* faulty variant of from_start_end: `start < end` in place of `start <= end`
from_start_end_strict(s, e) ==
    IF lt(s, e)
    THEN IF between(s, e) > U32_MAX THEN None
         ELSE IF 1 + between(s, e) > U32_MAX THEN Panic
         ELSE Some([start |-> s, len |-> 1 + between(s, e)])
    ELSE None

\* u32::try_from(between).ok()? gives None above u32::MAX; 1 + u32::MAX
\* overflows: a panic in a checked build, 0 and a failed unwrap otherwise
from_start_end(s, e) ==
    IF le(s, e)
    THEN IF between(s, e) > U32_MAX THEN None
         ELSE IF 1 + between(s, e) > U32_MAX THEN Panic
         ELSE Some([start |-> s, len |-> 1 + between(s, e)])
    ELSE None

intersect(a, b) ==
    LET max_start == max(start(a), start(b))
        min_end == min(end(a), end(b))
    IN from_start_end(max_start, min_end)

union(a, b) ==
    LET i == intersect(a, b)
    IN IF i = Panic THEN Panic
       ELSE IF is_some(i)
            THEN from_start_end(min(start(a), start(b)), max(end(a), end(b)))
            ELSE None

subtract(a, b) ==
    LET l == from_start_end(start(a), min(pred(start(b)), end(a)))
        r == from_start_end(max(succ(end(b)), start(a)), end(a))
    IN IF l = Panic \/ r = Panic THEN Panic
       ELSE [tag |-> "Pair", left |-> l, right |-> r]

compare(a, b) ==
    LET d == subtract(a, b)
    IN IF d = Panic THEN Panic
       ELSE IF is_some(d.left) /\ is_some(d.right) THEN [tag |-> "Superset"]
       ELSE IF is_some(d.left) THEN [tag |-> "Earlier"]
       ELSE IF is_some(d.right) THEN [tag |-> "Later"]
       ELSE [tag |-> "Subset"]

index_of(r, point) ==
    IF lt(point, start(r)) \/ lt(end(r), point)
    THEN None
    ELSE Some(between(start(r), point))

\* the first element of a BTreeSet of periods
first(S) == CHOOSE p \in S : \A q \in S : le(p, q)

from_set(S) ==
    IF Cardinality(S) > U32_MAX THEN None
    ELSE IF S = {} THEN None
    ELSE Some([start |-> first(S), len |-> Cardinality(S)])

\* BTreeSet<i64>::into_iter: the elements in ascending order
RECURSIVE into_iter(_)
into_iter(S) ==
    IF S = {} THEN <<>>
    ELSE LET m == CHOOSE x \in S : \A y \in S : x <= y
         IN <<m>> \o into_iter(S \ {m})

saturating_add(x, y) == IF x + y > U32_MAX THEN U32_MAX ELSE x + y

\* the `for val in iter` loop of from_map; its value is `ranges` when the
\* iterator is exhausted
RECURSIVE from_map_loop(_, _, _, _)
from_map_loop(vals, prev, current_range, ranges) ==
    IF vals = <<>> THEN ranges
    ELSE LET val == Head(vals)
         IN IF val = prev + 1
            THEN from_map_loop(Tail(vals), val,
                     [current_range EXCEPT !.len = saturating_add(@, 1)],
                     ranges)
            ELSE from_map_loop(Tail(vals), val,
                     [start |-> from_monotonic(val), len |-> 1],
                     ranges \cup {current_range})

from_map(map) ==
    IF map = {} THEN None
    ELSE LET it == into_iter(map)
             prev == Head(it)
         IN Some(from_map_loop(Tail(it), prev,
                     [start |-> from_monotonic(prev), len |-> 1], {}))

(***************************************************************************)
(* Cache<K, T>: keys are integers, a BTreeMap is a function on its key set *)
(***************************************************************************)
\* BTreeMap::new()
empty_map == [k \in {} |-> 0]

\* faulty variant of filter_span: the lower end of the span is excluded
filter_span_open(m, lo, hi) ==
    [k \in {x \in DOMAIN m : lo < x /\ hi >= x} |-> m[k]]

\* the entries of map m whose keys satisfy lo <= k <= hi
filter_span(m, lo, hi) ==
    [k \in {x \in DOMAIN m : lo <= x /\ hi >= x} |-> m[k]]

Hit(m) == [tag |-> "Hit", map |-> m]

Miss(groups) == [tag |-> "Miss", groups |-> groups]

\* the `for requested in request` loop of missing_pieces, then the flush
RECURSIVE missing_pieces_loop(_, _, _, _)
missing_pieces_loop(vals, reqs, to_request, current_request) ==
    IF vals = <<>>
    THEN IF current_request # {}
         THEN Append(to_request, current_request)
         ELSE to_request
    ELSE LET requested == Head(vals)
         IN IF requested \notin reqs
            THEN missing_pieces_loop(Tail(vals), reqs, to_request,
                     current_request \cup {requested})
            ELSE IF current_request # {}
            THEN missing_pieces_loop(Tail(vals), reqs,
                     Append(to_request, current_request), {})
            ELSE missing_pieces_loop(Tail(vals), reqs, to_request,
                     current_request)

\* faulty variant of missing_pieces: the last open group is not flushed
RECURSIVE missing_pieces_noflush_loop(_, _, _, _)
missing_pieces_noflush_loop(vals, reqs, to_request, current_request) ==
    IF vals = <<>> THEN to_request
    ELSE LET requested == Head(vals)
         IN IF requested \notin reqs
            THEN missing_pieces_noflush_loop(Tail(vals), reqs, to_request,
                     current_request \cup {requested})
            ELSE IF current_request # {}
            THEN missing_pieces_noflush_loop(Tail(vals), reqs,
                     Append(to_request, current_request), {})
            ELSE missing_pieces_noflush_loop(Tail(vals), reqs, to_request,
                     current_request)

missing_pieces_noflush(request, reqs) ==
    missing_pieces_noflush_loop(into_iter(request), reqs, <<>>, {})

\* faulty variant of missing_pieces: a resolved key does not close the group
RECURSIVE missing_pieces_noclose_loop(_, _, _, _)
missing_pieces_noclose_loop(vals, reqs, to_request, current_request) ==
    IF vals = <<>>
    THEN IF current_request # {}
         THEN Append(to_request, current_request)
         ELSE to_request
    ELSE LET requested == Head(vals)
         IN IF requested \notin reqs
            THEN missing_pieces_noclose_loop(Tail(vals), reqs, to_request,
                     current_request \cup {requested})
            ELSE missing_pieces_noclose_loop(Tail(vals), reqs, to_request,
                     current_request)

missing_pieces_noclose(request, reqs) ==
    missing_pieces_noclose_loop(into_iter(request), reqs, <<>>, {})

missing_pieces(request, reqs) ==
    missing_pieces_loop(into_iter(request), reqs, <<>>, {})

\* faulty variant of get: is_subset in place of is_superset
get_subset(d, reqs, request) ==
    IF request = {} THEN Hit(empty_map)
    ELSE IF reqs \subseteq request
    THEN LET keys == into_iter(request)
         IN Hit(filter_span(d, keys[1], keys[Len(keys)]))
    ELSE Miss(missing_pieces(request, reqs))

\* Cache::get on a cache with data map d and resolved keys reqs
get(d, reqs, request) ==
    IF request = {} THEN Hit(empty_map)
    ELSE IF request \subseteq reqs
    THEN LET keys == into_iter(request)
         IN Hit(filter_span(d, keys[1], keys[Len(keys)]))
    ELSE Miss(missing_pieces(request, reqs))

\* faulty variant of insert_all: a key already cached keeps its old value
insert_all_keep(d, new_data) ==
    [k \in DOMAIN d \cup DOMAIN new_data |->
        IF k \in DOMAIN d THEN d[k] ELSE new_data[k]]

\* faulty variant of insert_all: a key already cached is evicted
insert_all_evict(d, new_data) ==
    [k \in (DOMAIN d \cup DOMAIN new_data) \ (DOMAIN d \cap DOMAIN new_data)
        |-> IF k \in DOMAIN new_data THEN new_data[k] ELSE d[k]]

\* BTreeMap::insert of every pair of new_data, in key order
insert_all(d, new_data) ==
    [k \in DOMAIN d \cup DOMAIN new_data |->
        IF k \in DOMAIN new_data THEN new_data[k] ELSE d[k]]

\* faulty variant of add: the request range replaces the resolved keys
add_replace(d, reqs, request_range, new_data) ==
    [data |-> insert_all(d, new_data), requests |-> request_range]

\* faulty variant of add: the request range is not merged
add_forget(d, reqs, request_range, new_data) ==
    [data |-> insert_all(d, new_data), requests |-> reqs]

\* Cache::add: the fields after the call
add(d, reqs, request_range, new_data) ==
    [data |-> insert_all(d, new_data), requests |-> reqs \cup request_range]

(***************************************************************************)
(* Inputs                                                                  *)
(***************************************************************************)
\* every TimeRange that new() can build over the explored periods
Ranges == {new(p, n) : p \in Periods, n \in 1..U32_MAX}

IndexSets == (SUBSET Idx) \cup {CoalesceExample}

\* the cache keys the calls are drawn from, and two distinct cached values
Keys == 1..MaxKey

Vals == {"a", "b"}

\* the resolved keys and the request of the gap example of the specification
ExampleRequests == {2, 3, 7, 8}

ExampleRequest == 1..10

\* a request of two keys of the example with resolved and cached keys between
ExampleSpan == {2, 7}

RequestRanges == (SUBSET Keys) \cup {ExampleRequests}

\* the data of one add call: at most MaxPairs pairs
DataMaps ==
    UNION {[S -> Vals] : S \in {T \in SUBSET Keys : Cardinality(T) <= MaxPairs}}

GetRequests == (SUBSET Keys) \cup {ExampleRequest, ExampleSpan}

(***************************************************************************)
(* The state machine: one action per operation of the API                  *)
(***************************************************************************)
\* no call made yet, on Cache::empty()
Init ==
    /\ op = "idle"
    /\ args = [none |-> TRUE]
    /\ ret = None
    /\ data = empty_map
    /\ requests = {}

DoMaybeNew ==
    \E p \in Periods, n \in 0..U32_MAX :
        /\ op = "idle"
        /\ op' = "maybe_new"
        /\ args' = [start |-> p, len |-> n]
        /\ ret' = maybe_new(p, n)
        /\ UNCHANGED cache

DoEnd ==
    \E r \in Ranges :
        /\ op = "idle"
        /\ op' = "end"
        /\ args' = [self |-> r]
        /\ ret' = end(r)
        /\ UNCHANGED cache

DoIter ==
    \E r \in Ranges :
        /\ op = "idle"
        /\ op' = "iter"
        /\ args' = [self |-> r]
        /\ ret' = iter(r)
        /\ UNCHANGED cache

DoSet ==
    \E r \in Ranges :
        /\ op = "idle"
        /\ op' = "set"
        /\ args' = [self |-> r]
        /\ ret' = set(r)
        /\ UNCHANGED cache

DoToIndexes ==
    \E r \in Ranges :
        /\ op = "idle"
        /\ op' = "to_indexes"
        /\ args' = [self |-> r]
        /\ ret' = to_indexes(r)
        /\ UNCHANGED cache

DoFromStartEnd ==
    \E s \in Periods, e \in Periods :
        /\ op = "idle"
        /\ op' = "from_start_end"
        /\ args' = [start |-> s, end |-> e]
        /\ ret' = from_start_end(s, e)
        /\ UNCHANGED cache

DoIntersect ==
    \E a \in Ranges, b \in Ranges :
        /\ op = "idle"
        /\ op' = "intersect"
        /\ args' = [self |-> a, other |-> b]
        /\ ret' = intersect(a, b)
        /\ UNCHANGED cache

DoUnion ==
    \E a \in Ranges, b \in Ranges :
        /\ op = "idle"
        /\ op' = "union"
        /\ args' = [self |-> a, other |-> b]
        /\ ret' = union(a, b)
        /\ UNCHANGED cache

DoSubtract ==
    \E a \in Ranges, b \in Ranges :
        /\ op = "idle"
        /\ op' = "subtract"
        /\ args' = [self |-> a, other |-> b]
        /\ ret' = subtract(a, b)
        /\ UNCHANGED cache

DoCompare ==
    \E a \in Ranges, b \in Ranges :
        /\ op = "idle"
        /\ op' = "compare"
        /\ args' = [self |-> a, other |-> b]
        /\ ret' = compare(a, b)
        /\ UNCHANGED cache

DoIndexOf ==
    \E r \in Ranges, p \in Periods :
        /\ op = "idle"
        /\ op' = "index_of"
        /\ args' = [self |-> r, point |-> p]
        /\ ret' = index_of(r, p)
        /\ UNCHANGED cache

DoFromSet ==
    \E S \in SUBSET Periods :
        /\ op = "idle"
        /\ op' = "from_set"
        /\ args' = [set |-> S]
        /\ ret' = from_set(S)
        /\ UNCHANGED cache

DoFromMap ==
    \E m \in IndexSets :
        /\ op = "idle"
        /\ op' = "from_map"
        /\ args' = [map |-> m]
        /\ ret' = from_map(m)
        /\ UNCHANGED cache

Return ==
    /\ op # "idle"
    /\ op' = "idle"
    /\ args' = [none |-> TRUE]
    /\ ret' = None
    /\ UNCHANGED cache

Next ==
    \/ DoMaybeNew
    \/ DoEnd
    \/ DoIter
    \/ DoSet
    \/ DoToIndexes
    \/ DoFromStartEnd
    \/ DoIntersect
    \/ DoUnion
    \/ DoSubtract
    \/ DoCompare
    \/ DoIndexOf
    \/ DoFromSet
    \/ DoFromMap
    \/ Return

Spec == Init /\ [][Next]_vars

(***************************************************************************)
(* The cache: add and get, called from the idle state on the current       *)
(* (data, requests)                                                        *)
(***************************************************************************)
DoAdd ==
    \E request_range \in RequestRanges, new_data \in DataMaps :
        /\ op = "idle"
        /\ op' = "add"
        /\ args' = [request_range |-> request_range, data |-> new_data]
        /\ ret' = None
        /\ data' = add(data, requests, request_range, new_data).data
        /\ requests' = add(data, requests, request_range, new_data).requests

DoGet ==
    \E request \in GetRequests :
        /\ op = "idle"
        /\ op' = "get"
        /\ args' = [request |-> request]
        /\ ret' = get(data, requests, request)
        /\ UNCHANGED cache

CacheNext ==
    \/ DoAdd
    \/ DoGet
    \/ Return

CacheSpec == Init /\ [][CacheNext]_vars

(***************************************************************************)
(* The get / add / get round of a caller: a get answered Miss, one add for *)
(* every group of that Miss, in any order and with any data, then the same *)
(* get again                                                               *)
(***************************************************************************)
\* the groups of a Miss, as the set the caller works through
groups_of(response) == {response.groups[i] : i \in 1..Len(response.groups)}

DoMiss ==
    \E request \in GetRequests :
        /\ op = "idle"
        /\ get(data, requests, request).tag = "Miss"
        /\ op' = "fetch"
        /\ ret' = get(data, requests, request)
        /\ args' = [request |-> request,
                    miss |-> get(data, requests, request),
                    groups |-> groups_of(get(data, requests, request))]
        /\ UNCHANGED cache

DoFetchAdd ==
    /\ op = "fetch"
    /\ \E group \in args.groups, new_data \in DataMaps :
        /\ op' = "fetch"
        /\ args' = [args EXCEPT !.groups = @ \ {group}]
        /\ ret' = None
        /\ data' = add(data, requests, group, new_data).data
        /\ requests' = add(data, requests, group, new_data).requests

DoGetAgain ==
    /\ op = "fetch"
    /\ args.groups = {}
    /\ op' = "get_again"
    /\ args' = args
    /\ ret' = get(data, requests, args.request)
    /\ UNCHANGED cache

ProtocolNext ==
    \/ DoAdd
    \/ DoMiss
    \/ DoFetchAdd
    \/ DoGetAgain
    \/ Return

ProtocolSpec == Init /\ [][ProtocolNext]_vars

(***************************************************************************)
(* add statement by statement, with a get that is not excluded while the   *)
(* add runs.  &mut self rules this out in safe code; where it happens, the *)
(* get reads the cache between two statements of add, or reads a tree that *)
(* is being rebalanced, which is undefined: the answer it would have       *)
(* computed, or a crash.                                                   *)
(***************************************************************************)
\* faulty variant of insert: a key already cached keeps its value
insert_if_absent(d, point, datum) ==
    [k \in DOMAIN d \cup {point} |-> IF k \in DOMAIN d THEN d[k] ELSE datum]

\* BTreeMap::insert(point, datum)
insert(d, point, datum) ==
    [k \in DOMAIN d \cup {point} |-> IF k = point THEN datum ELSE d[k]]

\* the adds explored statement by statement: data for every key of a
\* non-empty request range
RacedAdds ==
    {ra \in [request_range : (SUBSET Keys) \ {{}}, data : DataMaps] :
        DOMAIN ra.data = ra.request_range}

\* self.requests.append(&mut request_range)
AddAppend ==
    \E ra \in RacedAdds :
        /\ op = "idle"
        /\ op' = "adding"
        /\ args' = [request_range |-> ra.request_range, data |-> ra.data,
                    rest |-> into_iter(DOMAIN ra.data)]
        /\ ret' = None
        /\ requests' = requests \cup ra.request_range
        /\ data' = data

\* one turn of `for (point, datum) in data`
AddInsert ==
    /\ op = "adding"
    /\ args.rest # <<>>
    /\ op' = "adding"
    /\ args' = [args EXCEPT !.rest = Tail(@)]
    /\ ret' = None
    /\ data' = insert(data, Head(args.rest), args.data[Head(args.rest)])
    /\ requests' = requests

\* add returns
AddReturn ==
    /\ op = "adding"
    /\ args.rest = <<>>
    /\ op' = "added"
    /\ args' = args
    /\ ret' = None
    /\ UNCHANGED cache

\* get(request_range) while the add is running
RacingGet ==
    /\ op = "adding"
    /\ ret = None
    /\ op' = "adding"
    /\ args' = args
    /\ ret' \in {get(data, requests, args.request_range), Panic}
    /\ UNCHANGED cache

\* get(request_range) after the add has returned
SerialGet ==
    /\ op = "added"
    /\ op' = "got"
    /\ args' = args
    /\ ret' = get(data, requests, args.request_range)
    /\ UNCHANGED cache

RaceReturn ==
    /\ op \in {"added", "got"}
    /\ Return

RaceNext ==
    \/ AddAppend
    \/ AddInsert
    \/ AddReturn
    \/ RacingGet
    \/ SerialGet
    \/ RaceReturn

RaceSpec == Init /\ [][RaceNext]_vars

(***************************************************************************)
(* The period kinds: Day, Week, Month, Quarter, Year wrap an i64 index,    *)
(* Minutes<N> wraps the index of a bucket of N minutes                     *)
(***************************************************************************)
MinuteWidths == {1, 2, 5}

DateKinds == {[name |-> "Day"], [name |-> "Month"], [name |-> "Quarter"],
              [name |-> "Year"]}

Kinds ==
    DateKinds \cup {[name |-> "Week"]}
        \cup {[name |-> "Minutes", N |-> w] : w \in MinuteWidths}

\* faulty variant of kind_from_monotonic: the index is taken as a count
\* from 1
kind_from_monotonic_shifted(kind, idx) == [kind |-> kind, index |-> idx - 1]

kind_from_monotonic(kind, idx) == [kind |-> kind, index |-> idx]

kind_to_monotonic(p) == p.index

kind_succ_n(p, n) == [kind |-> p.kind, index |-> p.index + n]

\* faulty variant of kind_pred_n: steps forward
kind_pred_n_forward(p, n) == [kind |-> p.kind, index |-> p.index + n]

kind_pred_n(p, n) == [kind |-> p.kind, index |-> p.index - n]

kind_succ(p) == kind_succ_n(p, 1)

kind_pred(p) == kind_pred_n(p, 1)

\* faulty variant of kind_between: self.index - other.index
kind_between_reversed(p, other) == p.index - other.index

kind_between(p, other) == other.index - p.index

KindPeriods == {kind_from_monotonic(k, i) : k \in Kinds, i \in Idx}

(***************************************************************************)
(* chrono::NaiveDate, proleptic Gregorian with a year 0, as the record     *)
(* [year, month, day]; the representable dates end with MaxChronoYear      *)
(***************************************************************************)
Years == (0 - NegYears)..PosYears

ChronoYears == (0 - NegYears - 1)..(PosYears + 1)

is_leap_year(y) == (y % 4 = 0 /\ y % 100 # 0) \/ y % 400 = 0

days_in_month(y, m) ==
    IF m \in {4, 6, 9, 11} THEN 30
    ELSE IF m = 2 THEN (IF is_leap_year(y) THEN 29 ELSE 28)
    ELSE 31

\* days from 0000-01-01 to the first day of year y
days_before_year(y) ==
    365 * y + ((y + 3) \div 4) - ((y + 99) \div 100) + ((y + 399) \div 400)

RECURSIVE days_before_month(_, _)
days_before_month(y, m) ==
    IF m = 1 THEN 0
    ELSE days_before_month(y, m - 1) + days_in_month(y, m - 1)

from_ymd(y, m, d) == [year |-> y, month |-> m, day |-> d]

\* fn base(): 0000-01-01
base == from_ymd(0, 1, 1)

\* (d - base()).num_days()
days_from_base(d) ==
    days_before_year(d.year) + days_before_month(d.year, d.month) + d.day - 1

\* base() + Duration::days(n); the addition panics outside the
\* representable dates
base_plus_days(n) ==
    IF \/ n < days_before_year(0 - NegYears - 1)
       \/ n >= days_before_year(PosYears + 2)
    THEN Panic
    ELSE LET y == CHOOSE c \in ChronoYears :
                      /\ days_before_year(c) <= n
                      /\ n < days_before_year(c + 1)
             r == n - days_before_year(y)
             m == CHOOSE c \in 1..12 :
                      /\ days_before_month(y, c) <= r
                      /\ r < days_before_month(y, c) + days_in_month(y, c)
         IN from_ymd(y, m, r - days_before_month(y, m) + 1)

\* date + Duration::days(n)
plus_days(d, n) == base_plus_days(days_from_base(d) + n)

date_le(d, e) == days_from_base(d) <= days_from_base(e)

\* faulty variant of div_euclid: the truncating division `/`
div_truncating(a, b) == IF a >= 0 THEN a \div b ELSE 0 - ((0 - a) \div b)

\* i64::div_euclid and i64::rem_euclid for a positive divisor
div_euclid(a, b) == a \div b

rem_euclid(a, b) == a % b

(***************************************************************************)
(* DateResolution of Day, Month, Quarter and Year                          *)
(***************************************************************************)
\* Quarter::quarter_num(&self)
quarter_num(p) == 1 + rem_euclid(p.index, 4)

\* fn quarter_num(d: NaiveDate)
quarter_num_of_date(d) == ((d.month - 1) \div 3) + 1

\* DateResolution::start
date_start(p) ==
    IF p.kind.name = "Day" THEN base_plus_days(p.index)
    ELSE IF p.kind.name = "Month"
    THEN from_ymd(div_euclid(p.index, 12), 1 + rem_euclid(p.index, 12), 1)
    ELSE IF p.kind.name = "Quarter"
    THEN from_ymd(div_euclid(p.index, 4), quarter_num(p) * 3 - 2, 1)
    ELSE from_ymd(p.index, 1, 1)

\* From<NaiveDate>
from_date(kind, d) ==
    IF kind.name = "Day" THEN kind_from_monotonic(kind, days_from_base(d))
    ELSE IF kind.name = "Month"
    THEN kind_from_monotonic(kind, (d.month - 1) + d.year * 12)
    ELSE IF kind.name = "Quarter"
    THEN kind_from_monotonic(kind, quarter_num_of_date(d) - 1 + d.year * 4)
    ELSE kind_from_monotonic(kind, d.year)

\* DateResolution::end: self.succ().start() - Duration::days(1)
date_end(p) == plus_days(date_start(kind_succ(p)), 0 - 1)

\* DateResolution::num_days
num_days(p) == days_from_base(date_end(p)) - days_from_base(date_start(p)) + 1

Dates ==
    {dt \in {from_ymd(y, m, d) : y \in Years, m \in 1..12, d \in 1..31} :
        dt.day <= days_in_month(dt.year, dt.month)}

DatePeriods == {from_date(k, d) : k \in DateKinds, d \in Dates}

\* Datelike::weekday, as the number of days from Monday; 0000-01-01 is a
\* Saturday
weekday(d) == (days_from_base(d) + 5) % 7

\* one pull of collect() on
\* (0..).map(|n| self.start() + Duration::days(n)).filter(|d| d <= &self.end()):
\* Some(the set collected so far) after item n, Panic if the date addition
\* overflows.  The iterator over 0.. has no end, so collect() pulls until
\* then.
days_pull(p, n, collected) ==
    LET d == plus_days(date_start(p), n)
    IN IF d = Panic THEN Panic
       ELSE IF date_le(d, date_end(p)) THEN Some(collected \cup {d})
       ELSE Some(collected)

\* the same pull in business_days, with the weekend filter
business_days_pull(p, weekend, n, collected) ==
    LET d == plus_days(date_start(p), n)
    IN IF d = Panic THEN Panic
       ELSE IF date_le(d, date_end(p)) /\ weekday(d) \notin weekend
       THEN Some(collected \cup {d})
       ELSE Some(collected)

(***************************************************************************)
(* Minutes<N>: Display and FromStr.  A NaiveDateTime is its timestamp in   *)
(* seconds; a text is the sequence of the timestamps it holds, joined by   *)
(* "=>"                                                                    *)
(***************************************************************************)
Ok(v) == [tag |-> "Ok", val |-> v]

Err == [tag |-> "Err"]

MinuteKinds == {[name |-> "Minutes", N |-> w] : w \in MinuteWidths}

MinutePeriods == {kind_from_monotonic(k, i) : k \in MinuteKinds, i \in Idx}

\* NaiveDateTime::from_timestamp(self.index * NUM_SECS * i64::from(N), 0)
naive_date_time(m) == m.index * NUM_SECS * m.kind.N

\* From<NaiveDateTime> for Minutes<N>
from_date_time(kind, d) ==
    kind_from_monotonic(kind, div_euclid(d, 60 * kind.N))

\* Duration::num_minutes: whole minutes, rounded towards zero
num_minutes(secs) ==
    IF secs >= 0 THEN secs \div 60 ELSE 0 - ((0 - secs) \div 60)

\* Display for Minutes<N>
fmt(m) ==
    IF m.kind.N = 1 THEN <<naive_date_time(m)>>
    ELSE <<naive_date_time(m), naive_date_time(kind_succ(m))>>

\* FromStr for Minutes<N>
from_str(kind, s) ==
    IF kind.N = 1
    THEN IF Len(s) = 1 THEN Ok(from_date_time(kind, s[1])) ELSE Err
    ELSE IF Len(s) < 2 THEN Err
    ELSE LET start_time == s[1]
             end_time == s[2]
         IN IF num_minutes(start_time - end_time) # kind.N THEN Err
            ELSE Ok(from_date_time(kind, start_time))

\* the timestamps of the texts handed to from_str
Stamps ==
    {naive_date_time(m) : m \in MinutePeriods}
        \cup {naive_date_time(kind_succ(m)) : m \in MinutePeriods}

Texts == {<<a>> : a \in Stamps} \cup {<<a, b>> : a \in Stamps, b \in Stamps}

(***************************************************************************)
(* The calendar: one action per operation of the period kinds; days() and  *)
(* business_days() advance one pull of collect() per step                  *)
(***************************************************************************)
\* the periods days() is called on: those of the first and the last day of
\* the last December of the explored years
DaysPeriods ==
    {from_date(k, from_ymd(PosYears, 12, d)) : k \in DateKinds, d \in {1, 31}}

\* Saturday and Sunday
Weekend == {5, 6}

Holidays == {{}, {from_ymd(PosYears, 12, 25)}}

DoFromMonotonic ==
    \E kind \in Kinds, idx \in Idx :
        /\ op = "idle"
        /\ op' = "from_monotonic"
        /\ args' = [kind |-> kind, idx |-> idx]
        /\ ret' = kind_from_monotonic(kind, idx)
        /\ UNCHANGED cache

DoToMonotonic ==
    \E p \in KindPeriods :
        /\ op = "idle"
        /\ op' = "to_monotonic"
        /\ args' = [p |-> p]
        /\ ret' = kind_to_monotonic(p)
        /\ UNCHANGED cache

DoSuccN ==
    \E p \in KindPeriods, n \in 0..U32_MAX :
        /\ op = "idle"
        /\ op' = "succ_n"
        /\ args' = [p |-> p, n |-> n]
        /\ ret' = kind_succ_n(p, n)
        /\ UNCHANGED cache

DoPredN ==
    \E p \in KindPeriods, n \in 0..U32_MAX :
        /\ op = "idle"
        /\ op' = "pred_n"
        /\ args' = [p |-> p, n |-> n]
        /\ ret' = kind_pred_n(p, n)
        /\ UNCHANGED cache

DoBetween ==
    \E p \in KindPeriods, other \in KindPeriods :
        /\ p.kind = other.kind
        /\ op = "idle"
        /\ op' = "between"
        /\ args' = [p |-> p, other |-> other]
        /\ ret' = kind_between(p, other)
        /\ UNCHANGED cache

DoFromDate ==
    \E kind \in DateKinds, d \in Dates :
        /\ op = "idle"
        /\ op' = "from_date"
        /\ args' = [kind |-> kind, d |-> d]
        /\ ret' = from_date(kind, d)
        /\ UNCHANGED cache

DoStart ==
    \E p \in DatePeriods :
        /\ op = "idle"
        /\ op' = "start"
        /\ args' = [p |-> p]
        /\ ret' = date_start(p)
        /\ UNCHANGED cache

DoDays ==
    \E p \in DaysPeriods :
        /\ op = "idle"
        /\ op' = "days"
        /\ args' = [p |-> p, n |-> 0, collected |-> {}]
        /\ ret' = None
        /\ UNCHANGED cache

DaysPull ==
    /\ op = "days"
    /\ LET pulled == days_pull(args.p, args.n, args.collected)
       IN IF pulled = Panic
          THEN /\ op' = "days_unwound"
               /\ args' = args
               /\ ret' = Panic
          ELSE /\ op' = "days"
               /\ args' = [args EXCEPT !.n = @ + 1, !.collected = pulled.val]
               /\ ret' = None
    /\ UNCHANGED cache

DoBusinessDays ==
    \E p \in DaysPeriods, holidays \in Holidays :
        /\ op = "idle"
        /\ op' = "business_days"
        /\ args' = [p |-> p, weekend |-> Weekend, holidays |-> holidays,
                    n |-> 0, collected |-> {}]
        /\ ret' = None
        /\ UNCHANGED cache

BusinessDaysPull ==
    /\ op = "business_days"
    /\ LET pulled == business_days_pull(args.p, args.weekend, args.n,
                                        args.collected)
       IN IF pulled = Panic
          THEN /\ op' = "business_days_unwound"
               /\ args' = args
               /\ ret' = Panic
          ELSE /\ op' = "business_days"
               /\ args' = [args EXCEPT !.n = @ + 1, !.collected = pulled.val]
               /\ ret' = None
    /\ UNCHANGED cache

DoDisplay ==
    \E m \in MinutePeriods :
        /\ op = "idle"
        /\ op' = "fmt"
        /\ args' = [m |-> m]
        /\ ret' = fmt(m)
        /\ UNCHANGED cache

\* from_str, of the text Display wrote and of any other text
DoFromStr ==
    \E kind \in MinuteKinds, s \in Texts :
        /\ op \in {"idle", "fmt"}
        /\ op = "fmt" => (kind = args.m.kind /\ s = ret)
        /\ op' = "from_str"
        /\ args' = [kind |-> kind, s |-> s]
        /\ ret' = from_str(kind, s)
        /\ UNCHANGED cache

\* the call returns; a running collect() does not
CalendarReturn ==
    /\ op \notin {"days", "business_days"}
    /\ Return

CalendarNext ==
    \/ DoFromMonotonic
    \/ DoToMonotonic
    \/ DoSuccN
    \/ DoPredN
    \/ DoBetween
    \/ DoFromDate
    \/ DoStart
    \/ DoDays
    \/ DaysPull
    \/ DoBusinessDays
    \/ BusinessDaysPull
    \/ DoDisplay
    \/ DoFromStr
    \/ CalendarReturn

CalendarSpec == Init /\ [][CalendarNext]_vars

(***************************************************************************)
(* Vocabulary of the properties                                            *)
(***************************************************************************)
\* the two readings of "the periods of a range": the periods the code
\* enumerates (set()), and the `len` periods start, ..., start.succ_n(len-1)
\* of the documented contract
Readings == {"set", "contract"}

periods_of(r, reading) ==
    IF reading = "set" THEN set(r)
    ELSE {succ_n(start(r), k) : k \in 0..(len(r) - 1)}

end_of(r, reading) ==
    IF reading = "set" THEN end(r) ELSE succ_n(start(r), len(r) - 1)

\* the monotonic indices of the periods of a range
indexes_of(r, reading) == {to_monotonic(p) : p \in periods_of(r, reading)}

\* the maximal runs of consecutive integers in S, counted by their firsts
NumRuns(S) == Cardinality({i \in S : (i - 1) \notin S})

\* a set of periods without holes
IsContiguous(S) == \A p \in S : p = first(S) \/ pred(p) \in S

\* the periods of one half of a subtract result
half_periods(h, reading) ==
    IF is_some(h) THEN periods_of(h.val, reading) ELSE {}

\* the ranges an operation returned, whatever its result type
returned_ranges ==
    IF op \in {"maybe_new", "from_start_end", "intersect", "union", "from_set"}
    THEN IF is_some(ret) THEN {ret.val} ELSE {}
    ELSE IF op = "subtract" /\ ret # Panic
    THEN (IF is_some(ret.left) THEN {ret.left.val} ELSE {})
         \cup (IF is_some(ret.right) THEN {ret.right.val} ELSE {})
    ELSE IF op = "from_map" /\ is_some(ret) THEN ret.val
    ELSE {}

\* the number of consecutive indices of S that begin at index s
run_length(S, s) == Cardinality({i \in S : i >= s /\ \A j \in s..i : j \in S})

\* the dates from d to e inclusive
dates_between(d, e) ==
    {plus_days(d, n) : n \in 0..(days_from_base(e) - days_from_base(d))}

\* the response to get(request_range) lacks a pair of the data of the add
stale(response, request_range, added) ==
    /\ response.tag = "Hit"
    /\ \E k \in DOMAIN added :
           /\ \E lo \in request_range : lo <= k
           /\ \E hi \in request_range : k <= hi
           /\ (k \notin DOMAIN response.map \/ response.map[k] # added[k])

\* answer c of a.compare(b) agrees with the position of a relative to b
compare_matches(a, b, c, rd) ==
    LET d == subtract(a, b)
    IN /\ c.tag = "Subset" <=> periods_of(a, rd) \subseteq periods_of(b, rd)
       /\ c.tag = "Superset" <=>
              /\ lt(start(a), start(b))
              /\ lt(end_of(b, rd), end_of(a, rd))
       /\ c.tag = "Earlier" <=> (is_some(d.left) /\ ~is_some(d.right))
       /\ c.tag = "Later" <=> (~is_some(d.left) /\ is_some(d.right))

\* the cached keys between the least and the greatest key of a request
span_keys(request) ==
    {k \in DOMAIN data :
        /\ \E lo \in request : lo <= k
        /\ \E hi \in request : k <= hi}

\* S has no key missing between its minimum and its maximum
IsRun(S) == \A x \in S, y \in S : \A k \in x..y : k \in S

(***************************************************************************)
(* C1: for every range r, r.iter() yields exactly r.len() periods, the     *)
(* first is r.start(), consecutive ones differ by succ(), and the last is  *)
(* r.end().                                                                *)
(***************************************************************************)
C1_IterYieldsLen ==
    op = "iter" =>
        LET r == args.self
        IN /\ Len(ret) = len(r)
           /\ Len(ret) >= 1
           /\ ret[1] = start(r)
           /\ \A i \in 1..(Len(ret) - 1) : ret[i + 1] = succ(ret[i])
           /\ ret[Len(ret)] = end(r)

(***************************************************************************)
(* C2: for every range r, r.end() = r.start().succ_n(r.len() - 1); and a   *)
(* range built by from_start_end(s, e) has start() = s and end() = e.      *)
(***************************************************************************)
C2_EndIsLastPeriod ==
    /\ op = "end" => ret = succ_n(start(args.self), len(args.self) - 1)
    /\ (op = "from_start_end" /\ is_some(ret)) =>
           /\ start(ret.val) = args.start
           /\ end(ret.val) = args.end

(***************************************************************************)
(* C3 as stated: from_start_end(start, end) returns a range if and only if *)
(* start <= end, and the range has start() = start and                     *)
(* len() = 1 + start.between(end).                                         *)
(***************************************************************************)
C3_Original ==
    op = "from_start_end" =>
        /\ is_some(ret) <=> le(args.start, args.end)
        /\ is_some(ret) =>
               /\ start(ret.val) = args.start
               /\ len(ret.val) = 1 + between(args.start, args.end)

(***************************************************************************)
(* C3 amended: from_start_end(start, end) returns a range if and only if   *)
(* start <= end and start.between(end) < u32::MAX, and the range has       *)
(* start() = start and len() = 1 + start.between(end).  With start > end,  *)
(* or a distance above u32::MAX, it returns None; with a distance of       *)
(* exactly u32::MAX it panics.                                             *)
(***************************************************************************)
C3_FromStartEnd ==
    op = "from_start_end" =>
        LET s == args.start
            e == args.end
        IN /\ is_some(ret) <=> (le(s, e) /\ between(s, e) < U32_MAX)
           /\ is_some(ret) =>
                  /\ start(ret.val) = s
                  /\ len(ret.val) = 1 + between(s, e)
           /\ (lt(e, s) \/ between(s, e) > U32_MAX) => ret = None
           /\ between(s, e) = U32_MAX => ret = Panic

\* a call with start < end that returned a range
C3_Witness ==
    /\ op = "from_start_end"
    /\ lt(args.start, args.end)
    /\ is_some(ret)
    /\ len(ret.val) = 1 + between(args.start, args.end)

(***************************************************************************)
(* C4: no operation returns a range of length 0, and the malformed inputs  *)
(* maybe_new(start, 0), from_start_end with start > end, from_set of the   *)
(* empty set and from_map of the empty set each return None (no panic).    *)
(***************************************************************************)
C4_NoZeroLength ==
    /\ \A r \in returned_ranges : len(r) \in 1..U32_MAX
    /\ (op = "maybe_new" /\ args.len = 0) => ret = None
    /\ (op = "from_start_end" /\ lt(args.end, args.start)) => ret = None
    /\ (op = "from_set" /\ args.set = {}) => ret = None
    /\ (op = "from_map" /\ args.map = {}) => ret = None

\* maybe_new was called with length 0 and answered None
C4_Witness == op = "maybe_new" /\ args.len = 0 /\ ret = None

(***************************************************************************)
(* C5: for every non-empty set S of indices the ranges from_map returns    *)
(* cover S exactly: every index of S lies in exactly one returned range    *)
(* and no returned range holds an index outside S (the last run included). *)
(* from_map({1,2,3,7,8,10}) yields three ranges covering {1,2,3}, {7,8}    *)
(* and {10}; from_map of a one-element set yields one range of length 1.   *)
(***************************************************************************)
C5_CoalesceCovers ==
    (op = "from_map" /\ args.map # {}) =>
        /\ is_some(ret)
        /\ \E rd \in Readings :
               /\ \A i \in args.map :
                      Cardinality({r \in ret.val : i \in indexes_of(r, rd)}) = 1
               /\ \A r \in ret.val : indexes_of(r, rd) \subseteq args.map
        /\ args.map = CoalesceExample =>
               /\ Cardinality(ret.val) = 3
               /\ \E rd \in Readings :
                      {indexes_of(r, rd) : r \in ret.val}
                          = {{1, 2, 3}, {7, 8}, {10}}
        /\ Cardinality(args.map) = 1 =>
               /\ Cardinality(ret.val) = 1
               /\ \A r \in ret.val : len(r) = 1

(***************************************************************************)
(* C6: the ranges from_map returns are pairwise disjoint and maximal: no   *)
(* two of them overlap or are adjacent, so their number is the number of   *)
(* maximal runs of consecutive integers in S.                              *)
(***************************************************************************)
C6_CoalesceMaximal ==
    (op = "from_map" /\ is_some(ret)) =>
        /\ \E rd \in Readings :
               \A r1 \in ret.val, r2 \in ret.val :
                   r1 # r2 =>
                       /\ periods_of(r1, rd) \cap periods_of(r2, rd) = {}
                       /\ succ(end_of(r1, rd)) # start(r2)
        /\ Cardinality(ret.val) = NumRuns(args.map)

(***************************************************************************)
(* C7: for every non-empty contiguous set S of periods, from_set(S) is the *)
(* range whose periods (r.set()) are exactly S; equivalently               *)
(* from_set(r.set()) = r for every range r.                                *)
(***************************************************************************)
C7_FromSetOfSet ==
    /\ (op = "from_set" /\ args.set # {} /\ IsContiguous(args.set)
            /\ Cardinality(args.set) <= U32_MAX) =>
           /\ is_some(ret)
           /\ set(ret.val) = args.set
    /\ op = "set" => from_set(ret) = Some(args.self)

(***************************************************************************)
(* C8: a.intersect(b) is absent exactly when a and b share no period, and  *)
(* otherwise the periods of the result are the intersection of the periods *)
(* of a and of b (so a.intersect(a) = a).  Stated for each reading of "the *)
(* periods of a range"; the calls that panic are left out.                 *)
(***************************************************************************)
C8_IntersectIsSetIntersection ==
    (op = "intersect" /\ ret # Panic) =>
        /\ \E rd \in Readings :
               LET common == periods_of(args.self, rd)
                                 \cap periods_of(args.other, rd)
               IN /\ ret = None <=> common = {}
                  /\ is_some(ret) => periods_of(ret.val, rd) = common
        /\ args.self = args.other => ret = Some(args.self)

(***************************************************************************)
(* C9: a.union(b) is present if and only if a.intersect(b) is present;     *)
(* when present its periods are the union of the periods of a and of b     *)
(* (start = min of the starts, end = max of the ends), and for ranges that *)
(* do not intersect it is absent.  Stated for the calls whose result fits  *)
(* the u32 length.                                                         *)
(***************************************************************************)
C9_UnionIsSetUnion ==
    (/\ op = "union"
     /\ ret # Panic
     /\ between(min(start(args.self), start(args.other)),
                max(end(args.self), end(args.other))) < U32_MAX) =>
        LET a == args.self
            b == args.other
        IN /\ is_some(ret) <=> is_some(intersect(a, b))
           /\ \E rd \in Readings :
                  /\ is_some(ret) =>
                         /\ periods_of(ret.val, rd)
                                = periods_of(a, rd) \cup periods_of(b, rd)
                         /\ start(ret.val) = min(start(a), start(b))
                         /\ end_of(ret.val, rd)
                                = max(end_of(a, rd), end_of(b, rd))
                  /\ periods_of(a, rd) \cap periods_of(b, rd) = {}
                         => ret = None

(***************************************************************************)
(* C10: for overlapping ranges a and b, a.subtract(b) = (left, right)      *)
(* partitions the periods of a that are not in b: left holds exactly the   *)
(* periods of a before b.start(), right exactly those after b.end(), both  *)
(* are disjoint from b and from each other, and a half is absent exactly   *)
(* when its side is empty.                                                 *)
(***************************************************************************)
C10_SubtractPartitions ==
    (op = "subtract" /\ ret # Panic) =>
        \E rd \in Readings :
            LET a == args.self
                b == args.other
                pa == periods_of(a, rd)
                pb == periods_of(b, rd)
                before == {p \in pa : lt(p, start(b))}
                after == {p \in pa : lt(end_of(b, rd), p)}
                L == half_periods(ret.left, rd)
                R == half_periods(ret.right, rd)
            IN pa \cap pb # {} =>
                   /\ L = before
                   /\ R = after
                   /\ L \cap pb = {}
                   /\ R \cap pb = {}
                   /\ L \cap R = {}
                   /\ ret.left = None <=> before = {}
                   /\ ret.right = None <=> after = {}

(***************************************************************************)
(* C11: for all ranges a and b, a.compare(b) matches the remainders of     *)
(* a.subtract(b): Subset exactly when every period of a is a period of b,  *)
(* Superset exactly when b lies strictly inside a with periods of a on     *)
(* both sides, Earlier when only a left remainder exists and Later when    *)
(* only a right remainder exists.                                          *)
(***************************************************************************)
C11_CompareClassifies ==
    op = "compare" =>
        /\ ret # Panic
        /\ \E rd \in Readings :
               compare_matches(args.self, args.other, ret, rd)

(***************************************************************************)
(* C12: r.index_of(p) is present if and only if p is one of the periods of *)
(* r; when present its value i satisfies 0 <= i < r.len() and              *)
(* r.start().succ_n(i) = p; it never panics.                               *)
(***************************************************************************)
C12_IndexOfInRange ==
    op = "index_of" =>
        /\ ret # Panic
        /\ \E rd \in Readings :
               /\ is_some(ret) <=> args.point \in periods_of(args.self, rd)
               /\ is_some(ret) =>
                      /\ 0 <= ret.val
                      /\ ret.val < len(args.self)
                      /\ succ_n(start(args.self), ret.val) = args.point

(***************************************************************************)
(* C13: in every cache state reached by add calls, get(request) is a Hit   *)
(* if and only if request is a subset of requests (the empty request is a  *)
(* Hit with an empty map), and a Miss with a non-empty list of groups      *)
(* otherwise.                                                              *)
(***************************************************************************)
C13_HitIffResolved ==
    op = "get" =>
        /\ ret.tag \in {"Hit", "Miss"}
        /\ ret.tag = "Hit" <=> args.request \subseteq requests
        /\ args.request = {} => ret = Hit(empty_map)
        /\ ret.tag = "Miss" => Len(ret.groups) >= 1

\* a non-empty request answered Hit
C13_Witness ==
    /\ op = "get"
    /\ args.request # {}
    /\ ret.tag = "Hit"

(***************************************************************************)
(* C14: a Hit for a non-empty request returns exactly the cached (k, v)    *)
(* pairs with min(request) <= k <= max(request): every such pair, also for *)
(* keys of the span that are not in request, and no pair outside the span. *)
(***************************************************************************)
C14_HitReturnsSpan ==
    (op = "get" /\ args.request # {} /\ ret.tag = "Hit") =>
        /\ DOMAIN ret.map = span_keys(args.request)
        /\ \A k \in DOMAIN ret.map : ret.map[k] = data[k]

\* a Hit that returns a pair whose key is inside the span but not requested,
\* while a cached pair outside the span is left out
C14_Witness ==
    /\ op = "get"
    /\ ret.tag = "Hit"
    /\ \E k \in DOMAIN ret.map : k \notin args.request
    /\ \E k \in DOMAIN data : k \notin DOMAIN ret.map

(***************************************************************************)
(* C15: the groups of a Miss are non-empty, pairwise disjoint, in          *)
(* ascending key order, and their union is request minus requests; each is *)
(* a maximal run: between two consecutive groups lies a key of request     *)
(* that is in requests.  For requests = {2,3,7,8} and request = {1..10}    *)
(* the answer is Miss([{1},{4,5,6},{9,10}]).                               *)
(***************************************************************************)
C15_MissGroups ==
    (op = "get" /\ ret.tag = "Miss") =>
        LET g == ret.groups
        IN /\ Len(g) >= 1
           /\ \A i \in 1..Len(g) : g[i] # {}
           /\ \A i \in 1..Len(g), j \in 1..Len(g) :
                  i < j => \A x \in g[i], y \in g[j] : x < y
           /\ UNION {g[i] : i \in 1..Len(g)} = args.request \ requests
           /\ \A i \in 1..(Len(g) - 1) :
                  \E k \in args.request \cap requests :
                      /\ \A x \in g[i] : x < k
                      /\ \A y \in g[i + 1] : k < y
           /\ (requests = ExampleRequests /\ args.request = ExampleRequest)
                  => g = <<{1}, {4, 5, 6}, {9, 10}>>

\* the gap example of the specification
C15_Witness ==
    /\ op = "get"
    /\ requests = ExampleRequests
    /\ args.request = ExampleRequest
    /\ ret.tag = "Miss"
    /\ Len(ret.groups) = 3

(***************************************************************************)
(* C16: if the request of a get is a contiguous run of keys, every group   *)
(* of the returned Miss is a contiguous run of keys.                       *)
(***************************************************************************)
C16_GroupsContiguous ==
    (op = "get" /\ ret.tag = "Miss" /\ IsRun(args.request)) =>
        \A i \in 1..Len(ret.groups) : IsRun(ret.groups[i])

\* a contiguous request with a resolved key in its middle: two groups
C16_Witness ==
    /\ op = "get"
    /\ ret.tag = "Miss"
    /\ IsRun(args.request)
    /\ Len(ret.groups) >= 2

(***************************************************************************)
(* C17: add(request_range, data) changes the cache to exactly              *)
(* requests' = requests \cup request_range and data' = the data map        *)
(* overridden by the new pairs (last write wins); entries whose key is not *)
(* in the new data are unchanged; add never fails.                         *)
(***************************************************************************)
C17_AddEffect ==
    [][op' = "add" =>
          /\ requests' = requests \cup args'.request_range
          /\ DOMAIN data' = DOMAIN data \cup DOMAIN args'.data
          /\ \A k \in DOMAIN args'.data : data'[k] = args'.data[k]
          /\ \A k \in DOMAIN data \ DOMAIN args'.data : data'[k] = data[k]
          /\ ret' = None]_vars

\* an add that brought pairs and left cached pairs of other keys in place
C17_Witness ==
    /\ op = "add"
    /\ DOMAIN args.data # {}
    /\ DOMAIN data # DOMAIN args.data
    /\ requests # args.request_range

(***************************************************************************)
(* C18: requests only grows: no step removes a key from requests, so a     *)
(* request that get answers with Hit is answered with Hit ever after.      *)
(***************************************************************************)
C18_RequestsOnlyGrows ==
    [][/\ requests \subseteq requests'
       /\ \A request \in GetRequests :
              get(data, requests, request).tag = "Hit"
                  => get(data', requests', request).tag = "Hit"]_vars

\* an add on a cache that already holds resolved keys and did not lose them
C18_Witness ==
    /\ op = "add"
    /\ requests # {}
    /\ requests # args.request_range

(***************************************************************************)
(* C19 as stated: in every cache state reached from empty() by add calls   *)
(* with arbitrary arguments, the key set of the data map is a subset of    *)
(* requests.                                                               *)
(***************************************************************************)
C19_Original == DOMAIN data \subseteq requests

(***************************************************************************)
(* C19 amended: in every cache state reached from empty() by add calls in  *)
(* each of which the keys of data lie in request_range, the key set of the *)
(* data map is a subset of requests.                                       *)
(***************************************************************************)
C19_DataKeysResolved ==
    [](op = "add" => DOMAIN args.data \subseteq args.request_range)
        => [](DOMAIN data \subseteq requests)

\* an add whose data keys lie in its request range, on a cache that already
\* held pairs of other keys
C19_Witness ==
    /\ op = "add"
    /\ DOMAIN args.data # {}
    /\ DOMAIN args.data \subseteq args.request_range
    /\ DOMAIN data # DOMAIN args.data
    /\ DOMAIN data \subseteq requests

(***************************************************************************)
(* C20: add is idempotent: after add(R, D), a second add(R, D) with the    *)
(* same arguments leaves requests and the data map as the first call left  *)
(* them.                                                                   *)
(***************************************************************************)
C20_AddIdempotent ==
    op = "add" =>
        add(data, requests, args.request_range, args.data)
            = [data |-> data, requests |-> requests]

\* an add that overwrote or inserted pairs next to older ones
C20_Witness ==
    /\ op = "add"
    /\ DOMAIN args.data # {}
    /\ args.request_range # {}
    /\ data # args.data

(***************************************************************************)
(* C21: from any cache state, get(R) right after add(R, D) is a Hit whose  *)
(* map holds exactly the pairs of D, and the pairs cached before that D    *)
(* does not overwrite, whose keys lie within [min(R), max(R)].             *)
(***************************************************************************)
C21_GetAfterAdd ==
    [][op' = "add" =>
          LET R == args'.request_range
              D == args'.data
              g == get(data', requests', R)
              within == {k \in DOMAIN D \cup DOMAIN data :
                            /\ \E lo \in R : lo <= k
                            /\ \E hi \in R : k <= hi}
          IN /\ g.tag = "Hit"
             /\ DOMAIN g.map = within
             /\ \A k \in within :
                    g.map[k] = IF k \in DOMAIN D THEN D[k] ELSE data[k]]_vars

\* an add of a pair inside the span of R, on a cache that holds another pair
\* inside the span and a pair outside it
C21_Witness ==
    /\ op = "add"
    /\ \E k \in DOMAIN args.data :
           /\ \E lo \in args.request_range : lo <= k
           /\ \E hi \in args.request_range : k <= hi
    /\ \E k \in DOMAIN data \ DOMAIN args.data :
           /\ \E lo \in args.request_range : lo <= k
           /\ \E hi \in args.request_range : k <= hi
    /\ \E k \in DOMAIN data : \A lo \in args.request_range : k < lo

(***************************************************************************)
(* C22: the get / add / get round converges: if get(request) is answered   *)
(* Miss(groups) and the caller then calls add(g, fetched) once for every   *)
(* group g of that Miss, in any order and with any data, the next          *)
(* get(request) is a Hit.                                                  *)
(***************************************************************************)
C22_RoundConverges ==
    op = "get_again" => ret.tag = "Hit"

\* a round that had several groups to fetch
C22_Witness ==
    /\ op = "get_again"
    /\ Len(args.miss.groups) >= 2
    /\ ret.tag = "Hit"

(***************************************************************************)
(* C27: length arithmetic that leaves its domain fails loudly and never    *)
(* wraps or saturates: from_map of a run of more consecutive indices than  *)
(* the greatest length, and from_start_end over a span longer than the     *)
(* greatest length, never return a range whose len() differs from the true *)
(* number of periods.                                                      *)
(***************************************************************************)
C27_NoSilentSaturation ==
    /\ (op = "from_map" /\ is_some(ret)) =>
           \A r \in ret.val :
               len(r) = run_length(args.map, to_monotonic(start(r)))
    /\ (op = "from_start_end" /\ is_some(ret)) =>
           len(ret.val) = 1 + between(args.start, args.end)

(***************************************************************************)
(* C23: bijectivity: for every period kind and every index i,              *)
(* from_monotonic(i).to_monotonic() = i, and for every period p,           *)
(* from_monotonic(p.to_monotonic()) = p.                                   *)
(***************************************************************************)
C23_Bijective ==
    /\ op = "from_monotonic" =>
           /\ kind_to_monotonic(ret) = args.idx
           /\ ret.kind = args.kind
    /\ op = "to_monotonic" =>
           kind_from_monotonic(args.p.kind, ret) = args.p

\* a negative index made into a bucket of five minutes
C23_Witness ==
    /\ op = "from_monotonic"
    /\ args.kind = [name |-> "Minutes", N |-> 5]
    /\ args.idx < 0
    /\ kind_to_monotonic(ret) = args.idx

(***************************************************************************)
(* C24: step inverses: p.succ_n(n).pred_n(n) = p and                       *)
(* p.pred_n(n).succ_n(n) = p for every period p and every n >= 0; succ()   *)
(* and pred() are the n = 1 case; p.succ_n(n).to_monotonic() =             *)
(* p.to_monotonic() + n.                                                   *)
(***************************************************************************)
C24_StepInverses ==
    /\ op = "succ_n" =>
           /\ kind_pred_n(ret, args.n) = args.p
           /\ kind_to_monotonic(ret) = kind_to_monotonic(args.p) + args.n
           /\ args.n = 1 => ret = kind_succ(args.p)
    /\ op = "pred_n" =>
           /\ kind_succ_n(ret, args.n) = args.p
           /\ args.n = 1 => ret = kind_pred(args.p)

\* the longest step, taken backwards across index 0
C24_Witness ==
    /\ op = "pred_n"
    /\ args.n = U32_MAX
    /\ args.p.index >= 0
    /\ ret.index < 0

(***************************************************************************)
(* C25: a.between(b) = b.to_monotonic() - a.to_monotonic(); hence          *)
(* a.between(b) = -(b.between(a)), a.between(a) = 0, a.between(b) is       *)
(* negative exactly when b precedes a, and a.succ_n(n).between(a) = -n.    *)
(***************************************************************************)
C25_Between ==
    /\ op = "between" =>
           /\ ret = kind_to_monotonic(args.other) - kind_to_monotonic(args.p)
           /\ ret = 0 - kind_between(args.other, args.p)
           /\ args.p = args.other => ret = 0
           /\ ret < 0 <=> args.other.index < args.p.index
    /\ op = "succ_n" => kind_between(ret, args.p) = 0 - args.n

\* a distance to an earlier period
C25_Witness ==
    /\ op = "between"
    /\ args.other.index < args.p.index
    /\ ret < 0

(***************************************************************************)
(* C26: for every date d, years before year 0 included, and every kind P   *)
(* of Day, Month, Quarter, Year, the period P::from(d) contains d:         *)
(* start() <= d <= end(), where end() is succ().start() minus one day; and *)
(* P::from(p.start()) = p for every period p.                              *)
(***************************************************************************)
C26_FromDateContains ==
    /\ op = "from_date" =>
           /\ date_le(date_start(ret), args.d)
           /\ date_le(args.d, date_end(ret))
    /\ op = "start" => from_date(args.p.kind, ret) = args.p

\* a day inside a month of a year before year 0
C26_Witness ==
    /\ op = "from_date"
    /\ args.kind.name = "Month"
    /\ args.d.year < 0
    /\ args.d.day > 1
    /\ ret.index < 0

(***************************************************************************)
(* C29: for every date-aligned period p, days() terminates and returns     *)
(* exactly the num_days() consecutive dates from p.start() to p.end()      *)
(* inclusive, and business_days() terminates and returns those dates minus *)
(* the weekend days and the holidays.                                      *)
(***************************************************************************)
C29_DaysReturns ==
    /\ op = "days_unwound" =>
           /\ ret # Panic
           /\ ret.val = dates_between(date_start(args.p), date_end(args.p))
           /\ Cardinality(ret.val) = num_days(args.p)
    /\ op = "business_days_unwound" =>
           /\ ret # Panic
           /\ ret.val =
                  {d \in dates_between(date_start(args.p), date_end(args.p)) :
                      weekday(d) \notin args.weekend} \ args.holidays

(***************************************************************************)
(* C30: Display and FromStr of Minutes<N> round-trip for every width N and *)
(* every period m: parsing the text Display writes for m succeeds and      *)
(* yields m; parsing a text of two timestamps fails only when they are not *)
(* exactly N minutes apart.                                                *)
(***************************************************************************)
C30_DisplayFromStr ==
    op = "from_str" =>
        /\ \A m \in MinutePeriods :
               (m.kind = args.kind /\ args.s = fmt(m)) => ret = Ok(m)
        /\ (args.kind.N > 1 /\ Len(args.s) = 2) =>
               (ret = Err <=>
                    args.s[2] - args.s[1] # args.kind.N * NUM_SECS)

(***************************************************************************)
(* C28: add is not atomic with respect to get: it merges request_range     *)
(* into requests before it inserts the pairs one by one, so a get that is  *)
(* interleaved between these steps can return Hit for a request whose data *)
(* from that add is not yet in the returned map; when the caller           *)
(* serializes add and get, no get observes requests holding the keys of an *)
(* add without the data of that add fully merged.                          *)
(***************************************************************************)
C28_SerializedGetSeesAdd ==
    /\ op = "adding" => args.request_range \subseteq requests
    /\ op = "got" =>
           /\ ret.tag = "Hit"
           /\ ~stale(ret, args.request_range, args.data)
           /\ \A k \in DOMAIN args.data :
                  k \in DOMAIN data /\ data[k] = args.data[k]

\* an interleaved get answered Hit without the data of the running add
C28_Witness ==
    /\ op = "adding"
    /\ args.rest # <<>>
    /\ ret.tag = "Hit"
    /\ stale(ret, args.request_range, args.data)

=============================================================================
